---- MODULE Spec2Model ----
(***************************************************************************)
(* Deep Research Assistant: the turn driver (deep_research.chat_turn), the *)
(* orchestrator (research_manager.run_research with its tools and          *)
(* handoffs), the planner prompt builder and the mail tool.                *)
(*                                                                         *)
(* The reasoning units (the language model behind every Agent) are the     *)
(* environment: each model response is a nondeterministic choice among the *)
(* things the agent is wired to do.  One model response carries one tool   *)
(* call, one handoff or one final output.  A tool that raises does not     *)
(* end the run: function_tool hands the error text back to the reasoning   *)
(* unit as the tool's result.                                              *)
(***************************************************************************)
EXTENDS Integers, Sequences, FiniteSets, TLC

VARIABLES
    c_pc,            \* chat_turn: "idle", "check", "waiting", "blank", "done", "crashed"
    maxsize,         \* maxsize of the run's asyncio.Queue (0 = unbounded)
    queue,           \* progress_queue contents
    published,       \* every event put on the queue, in put order (history)
    progress_lines,  \* chat_turn's progress_lines
    r_pc,            \* run_research task: "none", "created", "running", "returned", "raised"
    turns,           \* Runner.run: model responses consumed by the manager run
    agent,           \* Runner.run: the agent currently in control
    phase,           \* phase of the capability executed last
    call,            \* the capability executed by the last model response, with its locals
    plan,            \* search plan returned by the last successful plan_searches
    planned,         \* whether plan_searches has returned a plan in this run
    searches,        \* results of the run_search calls since the plan
    report_written,  \* whether write_report has returned a report in this run
    reply,           \* run_research result [0]
    report_md,       \* run_research result [1]
    chat_in,         \* respond: the chatbot value it is given (messages)
    progress_holder, \* respond / chat_turn: the incoming progress text, as its lines
    has_ctx,         \* whether the tools' wrapper carries a ResearchContext with a queue
    message,         \* chat_turn: message
    history,         \* chat_turn: history, a list of (user, assistant) tuples
    item,            \* chat_turn: the item yielded last
    input_str,       \* run_research: the input handed to the manager
    heap,            \* two turns in flight: the queue objects and their contents
    next_id,         \* two turns in flight: objects and trace ids allocated so far
    t_pc,            \* two turns in flight: position of each chat_turn
    t_run,           \* two turns in flight: state of each run_research task
    t_queue,         \* two turns in flight: each chat_turn's progress_queue
    t_ctx,           \* two turns in flight: each run's ResearchContext
    t_lines          \* two turns in flight: each chat_turn's progress_lines

\* Inputs of one turn
inputs == <<chat_in, progress_holder, has_ctx>>

\* chat_turn's arguments and its output
driver == <<message, history, item>>

\* State of the two turns in flight
two == <<heap, next_id, t_pc, t_run, t_queue, t_ctx, t_lines>>

vars == <<c_pc, maxsize, queue, published, progress_lines, r_pc, turns, agent,
          phase, call, plan, planned, searches, report_written, reply, report_md,
          inputs, driver, input_str, two>>

----
\* Bounds of the model
MaxPublished == 3    \* events one run publishes
MaxPlan == 1         \* length of a search plan
MaxSearches == 1     \* run_search calls after one plan
MaxQA == 2           \* length of the questions list and of the answers list
MaxVaried == 4       \* turns after which the reasoning units only repeat a call or finish
MaxChat == 6         \* messages in the incoming chatbot value
MaxSize == 1         \* maxsize of a bounded progress queue
MaxEmits == 1        \* events each of two concurrent runs publishes after its trace event

\* Program constant: Runner.run(..., max_turns=30)
max_turns == 30

\* Program constant: conversation_history[-5:]
RecentTurns == 5

----
\* Values

Messages == {"", " ", "query"}

\* The message taken as it is
StripNothing(m) == m

\* (message or "").strip()
Strip(m) == IF m = " " THEN "" ELSE m

Ev(k) == [kind |-> k, pos |-> 0]

\* A progress_label "Search i/N" chosen by the reasoning unit
SearchEv(i) == [kind |-> "Search", pos |-> i]

TraceEvent == Ev("View trace")

\* progress_label values: 0 is None or the empty string
Labels == 0..MaxPlan

Questions(n) == [i \in 1..n |-> IF i = 1 THEN "q1" ELSE IF i = 2 THEN "q2" ELSE "q3"]

Answers(n) == [i \in 1..n |-> IF i = 1 THEN "a1" ELSE IF i = 2 THEN "a2" ELSE "a3"]

\* The questions_and_answers argument: malformed text, or a JSON object
QAInputs ==
    {[wellformed |-> FALSE, questions |-> <<>>, answers |-> <<>>]} \cup
    {[wellformed |-> TRUE, questions |-> Questions(n), answers |-> Answers(m)] :
        n \in 0..MaxQA, m \in 0..MaxQA}

NoCall == [op |-> "none"]

Rank(p) ==
    CASE p = "START" -> 0
      [] p = "CLARIFYING" -> 1
      [] p = "PLANNING" -> 2
      [] p = "SEARCHING" -> 3
      [] p = "WRITING" -> 4
      [] p = "EMAILING" -> 5
      [] p = "DONE" -> 6

Min(a, b) == IF a < b THEN a ELSE b

----
\* deep_research.py: conversions between chatbot messages and history tuples

Text(i) ==
    CASE i = 1 -> "m1" [] i = 2 -> "m2" [] i = 3 -> "m3" [] i = 4 -> "m4"
      [] i = 5 -> "m5" [] i = 6 -> "m6" [] i = 7 -> "m7" [] i = 8 -> "m8"
      [] OTHER -> "m9"

\* Chatbot values: role/content messages as chat_turn's own items produce
\* them, so no content is empty
ChatInputs ==
    UNION { { [i \in 1..n |-> [role |-> roles[i], content |-> Text(i)]] :
                roles \in [1..n -> {"user", "assistant"}] } : n \in 0..MaxChat }

\* _history_to_messages
RECURSIVE _history_to_messages(_)
_history_to_messages(h) ==
    IF h = <<>> THEN <<>>
    ELSE (IF h[1][1] # "" THEN <<[role |-> "user", content |-> h[1][1]]>> ELSE <<>>)
         \o (IF h[1][2] # "" THEN <<[role |-> "assistant", content |-> h[1][2]]>>
             ELSE <<>>)
         \o _history_to_messages(Tail(h))

\* _messages_to_history: one step of its loop over the role/content messages
AddMessage(hist, m) ==
    IF m.role = "user" THEN Append(hist, <<m.content, "">>)
    ELSE IF hist # <<>> /\ hist[Len(hist)][2] = ""
         THEN [hist EXCEPT ![Len(hist)] = <<hist[Len(hist)][1], m.content>>]
         ELSE Append(hist, <<"", m.content>>)

RECURSIVE MessagesFrom(_, _, _)
MessagesFrom(msgs, i, hist) ==
    IF i > Len(msgs) THEN hist
    ELSE MessagesFrom(msgs, i + 1, AddMessage(hist, msgs[i]))

\* _messages_to_history
_messages_to_history(msgs) == MessagesFrom(msgs, 1, <<>>)

\* "\n".join(progress_lines): the text as its lines
ProgressText(lines) == lines

NoItem == [kind |-> "none", chat |-> <<>>, progress |-> <<>>, report |-> ""]

----
\* Progress queue

\* asyncio.Queue.full()
Full(q) == maxsize > 0 /\ Len(q) >= maxsize

\* put_nowait that stores nothing
PutNowaitLost(msg) == UNCHANGED <<queue, published>>

\* progress_queue.put_nowait(...) under except asyncio.QueueFull: pass
PutNowait(msg) ==
    IF Full(queue)
    THEN UNCHANGED <<queue, published>>
    ELSE /\ queue' = Append(queue, msg)
         /\ published' = Append(published, msg)

\* _emit_progress that makes room by discarding the oldest event
EmitProgressEvicts(msg) ==
    IF ~has_ctx
    THEN UNCHANGED <<queue, published>>
    ELSE /\ queue' = Append(IF Full(queue) THEN Tail(queue) ELSE queue, msg)
         /\ published' = Append(published, msg)

\* _emit_progress: put_nowait, QueueFull swallowed
EmitProgress(msg) ==
    IF ~has_ctx \/ Full(queue)
    THEN UNCHANGED <<queue, published>>
    ELSE /\ queue' = Append(queue, msg)
         /\ published' = Append(published, msg)

CanPublish == Len(published) < MaxPublished

----
\* planner_agent.py

\* Zip with a pairing slip: question i gets the answer i places from the end
ZipMisaligned(qs, as) ==
    [i \in 1..Min(Len(qs), Len(as)) |->
        [q |-> qs[i], a |-> as[Min(Len(qs), Len(as)) + 1 - i]]]

\* zip(input_data.clarifications, input_data.answers)
Zip(qs, as) == [i \in 1..Min(Len(qs), Len(as)) |-> [q |-> qs[i], a |-> as[i]]]

\* The two lines "Question i: q" and "Answer i: a" of pair i
PairLines(i, qa) ==
    << [tag |-> "Question", idx |-> i, text |-> qa.q],
       [tag |-> "Answer", idx |-> i, text |-> qa.a] >>

RECURSIVE QALines(_, _)
QALines(pairs, i) ==
    IF i > Len(pairs) THEN <<>>
    ELSE PairLines(i, pairs[i]) \o QALines(pairs, i + 1)

\* build_planner_prompt: the prompt as its sequence of lines
build_planner_prompt(input_data) ==
    << [tag |-> "Main query", idx |-> 0, text |-> input_data.query] >>
    \o QALines(Zip(input_data.clarifications, input_data.answers), 1)
    \o << [tag |-> "Based on the above", idx |-> 0, text |-> ""] >>

\* PlannerInput(query=query, clarifications=questions, answers=answers)
PlannerInput(query, questions, answers) ==
    [query |-> query, clarifications |-> questions, answers |-> answers]

----
\* email_agent.py

\* Status codes of the response sg.client.mail.send.post may return
MailStatuses == {202, 500}

\* send_email: the value returned once the transport has answered; the
\* response's status code is printed and not looked at
send_email(status) == "success"

----
\* research_manager.py: tools

\* run_search_result without the except clause: the error leaves the tool
run_search_propagates(failed) == IF failed THEN "ToolError" ELSE "summary"

\* run_search: str(result.final_output), or "" when the invocation raised
run_search_result(failed) == IF failed THEN "" ELSE "summary"

\* A final_output that is not a str
None == "<None>"

\* text = final_output if isinstance(final_output, str) else (final_output or "")
FinalText(final_output) == IF final_output = None THEN "" ELSE final_output

\* return text, text
Returned(text) == <<text, text>>

\* The search_results_json arguments the reasoning unit may pass
WriterInputs ==
    { [wellformed |-> FALSE, results |-> <<>>],
      [wellformed |-> TRUE, results |-> <<>>],
      [wellformed |-> TRUE, results |-> searches] }

\* A tool of the manager is suspended on its nested Runner.run
InFlight == call.op \in {"plan_searches", "run_search", "write_report"}
            /\ call.result = "pending"

\* One model response of the agent in control (one turn of Runner.run)
Turn(a) ==
    /\ r_pc = "running"
    /\ ~InFlight
    /\ agent = a
    /\ turns < max_turns
    /\ turns' = turns + 1

Varied == turns < MaxVaried

Manager == "ResearchManager"
Clarifier == "ClarifierAgent"
Mailer == "EmailAgent"

\* plan_searches up to its await: event, json.loads, PlannerInput, prompt
PlanSearches(qa) ==
    /\ Turn(Manager)
    /\ Varied
    /\ CanPublish
    /\ EmitProgress(Ev("Planning web searches..."))
    /\ phase' = "PLANNING"
    /\ LET input_data == PlannerInput("query", qa.questions, qa.answers)
           invoked == qa.wellformed
       IN call' = [op |-> "plan_searches", input |-> qa,
                   prompt |-> IF invoked THEN build_planner_prompt(input_data)
                              ELSE <<>>,
                   invoked |-> invoked, failed |-> FALSE,
                   result |-> IF invoked THEN "pending" ELSE "ToolError"]
    /\ UNCHANGED <<c_pc, maxsize, progress_lines, r_pc, agent, plan, planned,
                   searches, report_written, reply, report_md>>
    /\ UNCHANGED <<inputs, driver, input_str, two>>

\* plan_searches after its await: the planner's plan of n searches, or its error
PlannerReturns(ok, n) ==
    /\ r_pc = "running"
    /\ call.op = "plan_searches"
    /\ call.result = "pending"
    /\ call' = [call EXCEPT !.failed = ~ok,
                            !.result = IF ok THEN "plan" ELSE "ToolError"]
    /\ plan' = IF ok THEN [i \in 1..n |-> i] ELSE plan
    /\ planned' = (planned \/ ok)
    /\ searches' = IF ok THEN <<>> ELSE searches
    /\ UNCHANGED <<c_pc, maxsize, queue, published, progress_lines, r_pc, turns,
                   agent, phase, report_written, reply, report_md>>
    /\ UNCHANGED <<inputs, driver, input_str, two>>

\* The label test taken for granted
LabelAlways(label) == TRUE

\* if progress_label:
LabelGiven(label) == label # 0

\* run_search up to its await: the event, if a progress_label was given
RunSearch(label) ==
    /\ Turn(Manager)
    /\ Varied
    /\ Len(searches) < MaxSearches
    /\ IF LabelGiven(label)
       THEN CanPublish /\ EmitProgress(SearchEv(label))
       ELSE UNCHANGED <<queue, published>>
    /\ phase' = "SEARCHING"
    /\ call' = [op |-> "run_search", label |-> label, invoked |-> TRUE,
                failed |-> FALSE, result |-> "pending"]
    /\ UNCHANGED <<c_pc, maxsize, progress_lines, r_pc, agent, plan, planned,
                   searches, report_written, reply, report_md>>
    /\ UNCHANGED <<inputs, driver, input_str, two>>

\* run_search after its await: the summary, or the except clause
SearchReturns(failed) ==
    /\ r_pc = "running"
    /\ call.op = "run_search"
    /\ call.result = "pending"
    /\ call' = [call EXCEPT !.failed = failed,
                            !.result = run_search_result(failed)]
    /\ searches' = Append(searches, run_search_result(failed))
    /\ UNCHANGED <<c_pc, maxsize, queue, published, progress_lines, r_pc, turns,
                   agent, phase, plan, planned, report_written, reply, report_md>>
    /\ UNCHANGED <<inputs, driver, input_str, two>>

\* write_report up to its await: event, json.loads, input text
WriteReport(arg) ==
    /\ Turn(Manager)
    /\ Varied
    /\ CanPublish
    /\ EmitProgress(Ev("Writing report..."))
    /\ phase' = "WRITING"
    /\ call' = [op |-> "write_report", input |-> arg.results,
                wellformed |-> arg.wellformed,
                invoked |-> arg.wellformed, failed |-> FALSE,
                result |-> IF arg.wellformed THEN "pending" ELSE "ToolError"]
    /\ UNCHANGED <<c_pc, maxsize, progress_lines, r_pc, agent, plan, planned,
                   searches, report_written, reply, report_md>>
    /\ UNCHANGED <<inputs, driver, input_str, two>>

\* write_report after its await: the writer's report, or its error
WriterReturns(ok) ==
    /\ r_pc = "running"
    /\ call.op = "write_report"
    /\ call.result = "pending"
    /\ call' = [call EXCEPT !.failed = ~ok,
                            !.result = IF ok THEN "report" ELSE "ToolError"]
    /\ report_written' = (report_written \/ ok)
    /\ UNCHANGED <<c_pc, maxsize, queue, published, progress_lines, r_pc, turns,
                   agent, phase, plan, planned, searches, reply, report_md>>
    /\ UNCHANGED <<inputs, driver, input_str, two>>

----
\* research_manager.py: handoffs

\* handoff(agent=clarifier_agent, on_handoff=_on_handoff_to_clarifier)
HandoffToClarifier ==
    /\ Turn(Manager)
    /\ Varied
    /\ CanPublish
    /\ EmitProgress(Ev("Asking a few questions"))
    /\ agent' = Clarifier
    /\ phase' = "CLARIFYING"
    /\ call' = [op |-> "transfer_to_ClarifierAgent"]
    /\ UNCHANGED <<c_pc, maxsize, progress_lines, r_pc, plan, planned, searches,
                   report_written, reply, report_md>>
    /\ UNCHANGED <<inputs, driver, input_str, two>>

\* handoff(agent=email_agent, on_handoff=_on_handoff_to_email)
HandoffToEmail ==
    /\ Turn(Manager)
    /\ Varied
    /\ CanPublish
    /\ EmitProgress(Ev("Sending email"))
    /\ agent' = Mailer
    /\ phase' = "EMAILING"
    /\ call' = [op |-> "transfer_to_EmailAgent"]
    /\ UNCHANGED <<c_pc, maxsize, progress_lines, r_pc, plan, planned, searches,
                   report_written, reply, report_md>>
    /\ UNCHANGED <<inputs, driver, input_str, two>>

\* clarifier_agent.handoffs / email_agent.handoffs = [research_manager_agent]
HandBack ==
    /\ \/ Turn(Clarifier)
       \/ Turn(Mailer)
    /\ Varied
    /\ agent' = Manager
    /\ call' = [op |-> "transfer_to_ResearchManager"]
    /\ UNCHANGED <<c_pc, maxsize, queue, published, progress_lines, r_pc, phase,
                   plan, planned, searches, report_written, reply, report_md>>
    /\ UNCHANGED <<inputs, driver, input_str, two>>

\* The Mailer calls its send_email tool; the transport answers with a
\* response, or the client raises
SendEmail(status, raised) ==
    /\ Turn(Mailer)
    /\ phase' = "EMAILING"
    /\ call' = [op |-> "send_email", status |-> IF raised THEN 0 ELSE status,
                failed |-> raised,
                result |-> IF raised THEN "ToolError" ELSE send_email(status)]
    /\ UNCHANGED <<c_pc, maxsize, queue, published, progress_lines, r_pc, agent,
                   plan, planned, searches, report_written, reply, report_md>>
    /\ UNCHANGED <<inputs, driver, input_str, two>>

----
\* research_manager.py: run_research

\* What the agent in control may give as its final output
FinalOutputs ==
    IF agent = Clarifier THEN {"questions"}
    ELSE IF agent = Mailer THEN {"sent"}
    ELSE {None, "answer"} \cup (IF report_written THEN {"report"} ELSE {})

\* The window taken from the wrong end
RecentOldest(h) == SubSeq(h, 1, Min(Len(h), RecentTurns))

\* conversation_history[-5:]
Recent(h) == SubSeq(h, Len(h) - Min(Len(h), RecentTurns) + 1, Len(h))

\* input_str: the message alone, or the recent turns with u or a and the message
InputStr(user_message, conversation_history) ==
    IF conversation_history = <<>>
    THEN [context |-> <<>>, previous |-> FALSE, current |-> user_message]
    ELSE [context |-> SelectSeq(Recent(conversation_history),
                                LAMBDA t : t[1] # "" \/ t[2] # ""),
          previous |-> TRUE, current |-> user_message]

\* run_research up to the manager invocation: context, input, trace event
RunResearchStart ==
    /\ r_pc = "created"
    /\ input_str' = InputStr(message, history)
    /\ PutNowait(TraceEvent)
    /\ r_pc' = "running"
    /\ UNCHANGED <<c_pc, maxsize, progress_lines, turns, agent, phase, call, plan,
                   planned, searches, report_written, reply, report_md>>
    /\ UNCHANGED <<inputs, driver, two>>

\* The agent in control gives a final output: Runner.run returns, run_research
\* returns (text, text)
RunResearchReturn(final_output) ==
    /\ \/ Turn(Manager)
       \/ Turn(Clarifier)
       \/ Turn(Mailer)
    /\ r_pc' = "returned"
    /\ phase' = "DONE"
    /\ call' = [op |-> "final_output"]
    /\ reply' = Returned(FinalText(final_output))[1]
    /\ report_md' = Returned(FinalText(final_output))[2]
    /\ UNCHANGED <<c_pc, maxsize, queue, published, progress_lines, agent, plan,
                   planned, searches, report_written>>
    /\ UNCHANGED <<inputs, driver, input_str, two>>

\* Runner.run raises MaxTurnsExceeded; run_research has no handler
MaxTurnsExceeded ==
    /\ r_pc = "running"
    /\ ~InFlight
    /\ turns >= max_turns
    /\ r_pc' = "raised"
    /\ call' = [op |-> "MaxTurnsExceeded"]
    /\ UNCHANGED <<c_pc, maxsize, queue, published, progress_lines, turns, agent,
                   phase, plan, planned, searches, report_written, reply,
                   report_md>>
    /\ UNCHANGED <<inputs, driver, input_str, two>>

----
\* deep_research.py: chat_turn

\* respond converts the chatbot value; chat_turn: blank message -> one item
\* and return; else create queue and task
ChatTurnStart(msg) ==
    /\ c_pc = "idle"
    /\ message' = msg
    /\ history' = _messages_to_history(chat_in)
    /\ IF Strip(msg) = ""
       THEN /\ c_pc' = "blank"
            /\ item' = [kind |-> "blank", chat |-> _history_to_messages(history'),
                        progress |-> progress_holder, report |-> ""]
            /\ UNCHANGED <<maxsize, queue, progress_lines, r_pc>>
       ELSE /\ c_pc' = "check"
            /\ item' = NoItem
            /\ maxsize' = 0
            /\ queue' = <<>>
            /\ progress_lines' = <<>>
            /\ r_pc' = "created"
    /\ UNCHANGED <<published, turns, agent, phase, call, plan, planned, searches,
                   report_written, reply, report_md>>
    /\ UNCHANGED <<inputs, input_str, two>>

TaskDone == r_pc \in {"returned", "raised"}

\* while not run_task.done(): enter wait_for(progress_queue.get(), 0.5)
PollBegin ==
    /\ c_pc = "check"
    /\ ~TaskDone
    /\ c_pc' = "waiting"
    /\ UNCHANGED <<maxsize, queue, published, progress_lines, r_pc, turns, agent,
                   phase, call, plan, planned, searches, report_written, reply,
                   report_md>>
    /\ UNCHANGED <<inputs, driver, input_str, two>>

\* The get() completes: the line is appended and an item is yielded
PollReceive ==
    /\ c_pc = "waiting"
    /\ queue # <<>>
    /\ progress_lines' = Append(progress_lines, Head(queue))
    /\ queue' = Tail(queue)
    /\ item' = [kind |-> "progress", chat |-> _history_to_messages(history),
                progress |-> ProgressText(progress_lines'), report |-> ""]
    /\ c_pc' = "check"
    /\ UNCHANGED <<maxsize, published, r_pc, turns, agent, phase, call, plan,
                   planned, searches, report_written, reply, report_md>>
    /\ UNCHANGED <<inputs, message, history, input_str, two>>

\* asyncio.TimeoutError: an item with the lines so far is yielded
PollTimeout ==
    /\ c_pc = "waiting"
    /\ item' = [kind |-> "progress", chat |-> _history_to_messages(history),
                progress |-> ProgressText(progress_lines), report |-> ""]
    /\ c_pc' = "check"
    /\ UNCHANGED <<maxsize, queue, published, progress_lines, r_pc, turns, agent,
                   phase, call, plan, planned, searches, report_written, reply,
                   report_md>>
    /\ UNCHANGED <<inputs, message, history, input_str, two>>

\* Drain left out: the lines still queued at completion are not collected
DrainSkipped(lines, q) == lines

\* The drain loop: get_nowait until the queue is empty
Drain(lines, q) == lines \o q

\* After the poll loop: drain, run_task.result(), final item
ChatTurnFinish ==
    /\ c_pc = "check"
    /\ TaskDone
    /\ progress_lines' = Drain(progress_lines, queue)
    /\ queue' = <<>>
    /\ c_pc' = IF r_pc = "raised" THEN "crashed" ELSE "done"
    /\ item' = IF r_pc = "raised" THEN item
               ELSE [kind |-> "final",
                     chat |-> _history_to_messages(
                                  Append(history, <<message, reply>>)),
                     progress |-> ProgressText(progress_lines'),
                     report |-> report_md]
    /\ UNCHANGED <<maxsize, published, r_pc, turns, agent, phase, call, plan,
                   planned, searches, report_written, reply, report_md>>
    /\ UNCHANGED <<inputs, message, history, input_str, two>>

----
----
\* Two turns in flight on one event loop

\* State of the single turn
one == <<c_pc, maxsize, queue, published, progress_lines, r_pc, turns, agent,
         phase, call, plan, planned, searches, report_written, reply, report_md,
         inputs, driver, input_str>>

Runs == {1, 2}

\* One queue object for every turn
SharedQueue(h) == 1

\* asyncio.Queue(): a new object
NewQueue(h) == Len(h) + 1

\* The heap with an empty queue at address q if there is no object there
WithQueue(h, q) == IF q > Len(h) THEN Append(h, <<>>) ELSE h

\* gen_trace_id(): an id not handed out before
gen_trace_id == next_id + 1

\* An event as the run r puts it on a queue
EvBy(r, kind, id) == [by |-> r, kind |-> kind, trace_id |-> id]

\* chat_turn, non-blank message: its own queue, then the run_research task
TurnStart(r) ==
    /\ t_pc[r] = "idle"
    /\ LET q == NewQueue(heap)
       IN /\ heap' = WithQueue(heap, q)
          /\ t_queue' = [t_queue EXCEPT ![r] = q]
    /\ t_pc' = [t_pc EXCEPT ![r] = "waiting"]
    /\ t_run' = [t_run EXCEPT ![r] = "created"]
    /\ UNCHANGED <<one, next_id, t_ctx, t_lines>>

\* run_research up to the manager invocation: trace id, context, trace event
TurnRunStart(r) ==
    /\ t_run[r] = "created"
    /\ LET trace_id == gen_trace_id
           ctx == [progress_queue |-> t_queue[r], trace_id |-> trace_id]
       IN /\ next_id' = trace_id
          /\ t_ctx' = [t_ctx EXCEPT ![r] = ctx]
          /\ heap' = [heap EXCEPT ![ctx.progress_queue] =
                          Append(@, EvBy(r, "View trace", trace_id))]
    /\ t_run' = [t_run EXCEPT ![r] = "running"]
    /\ UNCHANGED <<one, t_pc, t_queue, t_lines>>

\* _emit_progress by a tool or handoff of the run r, through its own context
TurnEmit(r) ==
    /\ t_run[r] = "running"
    /\ Len(SelectSeq(heap[t_ctx[r].progress_queue] \o t_lines[1] \o t_lines[2],
                     LAMBDA e : e.by = r /\ e.kind = "progress")) < MaxEmits
    /\ heap' = [heap EXCEPT ![t_ctx[r].progress_queue] =
                    Append(@, EvBy(r, "progress", t_ctx[r].trace_id))]
    /\ UNCHANGED <<one, next_id, t_pc, t_run, t_queue, t_ctx, t_lines>>

\* chat_turn's poll loop receives from its queue
TurnReceive(r) ==
    /\ t_pc[r] = "waiting"
    /\ t_run[r] \in {"created", "running"}
    /\ heap[t_queue[r]] # <<>>
    /\ t_lines' = [t_lines EXCEPT ![r] = Append(@, Head(heap[t_queue[r]]))]
    /\ heap' = [heap EXCEPT ![t_queue[r]] = Tail(@)]
    /\ UNCHANGED <<one, next_id, t_pc, t_run, t_queue, t_ctx>>

\* The manager run of r is over
TurnRunReturn(r) ==
    /\ t_run[r] = "running"
    /\ t_run' = [t_run EXCEPT ![r] = "returned"]
    /\ UNCHANGED <<one, heap, next_id, t_pc, t_queue, t_ctx, t_lines>>

\* chat_turn after its run: drain of its queue, terminal item
TurnFinish(r) ==
    /\ t_pc[r] = "waiting"
    /\ t_run[r] = "returned"
    /\ t_lines' = [t_lines EXCEPT ![r] = @ \o heap[t_queue[r]]]
    /\ heap' = [heap EXCEPT ![t_queue[r]] = <<>>]
    /\ t_pc' = [t_pc EXCEPT ![r] = "done"]
    /\ UNCHANGED <<one, next_id, t_run, t_queue, t_ctx>>

NextConcurrent ==
    \E r \in Runs :
        \/ TurnStart(r)
        \/ TurnRunStart(r)
        \/ TurnEmit(r)
        \/ TurnReceive(r)
        \/ TurnRunReturn(r)
        \/ TurnFinish(r)

----
\* Specifications

\* What a run starts from, whoever starts it
InitRest ==
    /\ published = <<>>
    /\ progress_lines = <<>>
    /\ turns = 0
    /\ agent = Manager
    /\ phase = "START"
    /\ call = NoCall
    /\ plan = <<>>
    /\ planned = FALSE
    /\ searches = <<>>
    /\ report_written = FALSE
    /\ reply = ""
    /\ report_md = ""
    /\ item = NoItem
    /\ input_str = [context |-> <<>>, previous |-> FALSE, current |-> ""]
    /\ heap = <<>>
    /\ next_id = 0
    /\ t_pc = <<"idle", "idle">>
    /\ t_run = <<"none", "none">>
    /\ t_queue = <<0, 0>>
    /\ t_ctx = <<[progress_queue |-> 0, trace_id |-> 0],
                 [progress_queue |-> 0, trace_id |-> 0]>>
    /\ t_lines = << <<>>, <<>> >>

\* No turn has started
Idle ==
    /\ c_pc = "idle"
    /\ maxsize = 0
    /\ queue = <<>>
    /\ r_pc = "none"
    /\ has_ctx = TRUE
    /\ message = ""
    /\ history = <<>>

\* The first turn of a conversation
Init ==
    /\ Idle
    /\ chat_in = <<>>
    /\ progress_holder = <<>>
    /\ InitRest

\* The progress text a turn may find in the progress box
ProgressTexts == {<<>>, <<Ev("earlier run")>>}

\* A turn of a conversation under way
InitTurn ==
    /\ Idle
    /\ chat_in \in ChatInputs
    /\ progress_holder \in ProgressTexts
    /\ InitRest

\* Queues a caller may hand to run_research: bounded, empty or already full
BoundedQueues ==
    UNION { { [maxsize |-> n, queue |-> [i \in 1..k |-> Ev("earlier run")]] :
                k \in {0, n} } : n \in 1..MaxSize }

\* run_research called with a bounded queue, or the manager run by a caller
\* that passes no context
InitQueue ==
    /\ c_pc = "direct"
    /\ message = "query"
    /\ history = <<>>
    /\ chat_in = <<>>
    /\ progress_holder = <<>>
    /\ \/ /\ has_ctx = TRUE
          /\ r_pc = "created"
          /\ \E b \in BoundedQueues : maxsize = b.maxsize /\ queue = b.queue
       \/ /\ has_ctx = FALSE
          /\ r_pc = "running"
          /\ maxsize = 0
          /\ queue = <<>>
    /\ InitRest

\* The steps of chat_turn
NextDriver ==
    \/ \E msg \in Messages : ChatTurnStart(msg)
    \/ PollBegin
    \/ PollReceive
    \/ PollTimeout
    \/ ChatTurnFinish

\* The steps of the run_research task
NextRun ==
    \/ RunResearchStart
    \/ \E qa \in QAInputs : PlanSearches(qa)
    \/ \E n \in 0..MaxPlan : PlannerReturns(TRUE, n)
    \/ PlannerReturns(FALSE, 0)
    \/ \E label \in Labels : RunSearch(label)
    \/ \E failed \in BOOLEAN : SearchReturns(failed)
    \/ \E arg \in WriterInputs : WriteReport(arg)
    \/ \E ok \in BOOLEAN : WriterReturns(ok)
    \/ HandoffToClarifier
    \/ HandoffToEmail
    \/ HandBack
    \/ \E status \in MailStatuses : SendEmail(status, FALSE)
    \/ SendEmail(0, TRUE)
    \/ \E final_output \in FinalOutputs : RunResearchReturn(final_output)
    \/ MaxTurnsExceeded

Next == NextDriver \/ NextRun

\* A turn whose reasoning unit answers at once
NextTurn ==
    \/ NextDriver
    \/ RunResearchStart
    \/ \E final_output \in FinalOutputs : RunResearchReturn(final_output)

Spec == Init /\ [][Next]_vars

\* One turn over every incoming chatbot value and progress text
SpecTurn == InitTurn /\ [][NextTurn]_vars

\* The run on a bounded queue or without a context, no chat_turn polling it
SpecQueue == InitQueue /\ [][NextRun]_vars

\* Two turns overlapping on the event loop
SpecConcurrent == Init /\ [][NextConcurrent]_vars

----
\* Claims

\* C1: when chat_turn yields its final item, progress_lines is exactly the
\* sequence of events published to the run's queue: same order, none lost,
\* none duplicated.
C1_ProgressOrder == c_pc = "done" => progress_lines = published

\* C1 witness: a final item after three published events
C1_Witness == c_pc = "done" /\ Len(published) >= 3 /\ progress_lines = published

\* C2: a run whose reasoning units never give a final output ends at the
\* turn budget with run_research returning a non-empty reply.
C2_BudgetReply ==
    (TaskDone /\ call.op # "final_output") => (r_pc = "returned" /\ reply # "")

\* C3: reportMarkdown is the empty string in every run in which write_report
\* produced no report.
C3_ReportEmpty == (r_pc = "returned" /\ ~report_written) => report_md = ""

\* C4: when the search invocation inside run_search raises, run_search
\* returns the empty string and the run goes on.
C4_SearchFailureContained ==
    (call.op = "run_search" /\ call.failed) =>
        (call.result = "" /\ r_pc = "running")

\* C4 witness: write_report has produced a report from the empty summary of
\* a failed search
C4_Witness ==
    /\ call.op = "write_report"
    /\ call.result = "report"
    /\ call.input = <<"">>

\* C5: questions and answers of different lengths are rejected by
\* plan_searches: an error outcome and no planner invocation.
C5_MismatchRejected ==
    (/\ call.op = "plan_searches"
     /\ call.input.wellformed
     /\ Len(call.input.questions) # Len(call.input.answers))
    => (~call.invoked /\ call.result = "ToolError")

\* C6: for questions and answers of equal length n the planner prompt holds,
\* for i = 1..n in increasing i, question i immediately followed by answer i.
C6_PositionalPairs ==
    (/\ call.op = "plan_searches"
     /\ call.invoked
     /\ Len(call.input.questions) = Len(call.input.answers))
    => LET qs == call.input.questions
           as == call.input.answers
           p == call.prompt
       IN /\ Len(p) = 2 * Len(qs) + 2
          /\ \A i \in 1..Len(qs) :
                /\ p[2 * i] = [tag |-> "Question", idx |-> i, text |-> qs[i]]
                /\ p[2 * i + 1] = [tag |-> "Answer", idx |-> i, text |-> as[i]]

\* C6 witness: a prompt built from two questions and two answers
C6_Witness ==
    /\ call.op = "plan_searches"
    /\ call.invoked
    /\ Len(call.input.questions) = 2
    /\ Len(call.input.answers) = 2

\* C7: the phases of a run occur in the fixed order and no phase is entered
\* after a later phase has started.
C7_PhaseOrder == [][Rank(phase') >= Rank(phase)]_vars

SearchEvents == SelectSeq(published, LAMBDA e : e.kind = "Search")

\* C8: write_report runs only after all N planned searches were attempted,
\* with exactly N summaries, the searches having published exactly N events
\* of strictly increasing position.
C8_AllSearchesBeforeWrite ==
    (call.op = "write_report" /\ call.invoked /\ planned) =>
        /\ Len(searches) = Len(plan)
        /\ call.input = searches
        /\ Len(SearchEvents) = Len(plan)
        /\ \A i \in 1..Len(SearchEvents) : SearchEvents[i].pos = i

\* C9: the handoff to the Mailer is executed only when write_report has
\* returned a report in this run.
C9_EmailAfterReport == call.op = "transfer_to_EmailAgent" => report_written

\* C10: when the transport answers with a non-success response, send_email
\* does not return a success acknowledgment.
C10_DeliveryFailureSurfaced ==
    (call.op = "send_email" /\ ~call.failed /\ call.status \notin 200..299)
    => call.result # "success"

\* C11: in a run in which a report was written and the Mailer's delivery
\* then failed, run_research returns the report text as reportMarkdown.
C11_ReportSurvivesDeliveryFailure ==
    [][(/\ call.op = "send_email"
        /\ (call.failed \/ call.status \notin 200..299)
        /\ report_written
        /\ r_pc' = "returned")
       => report_md' = "report"]_vars

\* C12: when the workflow fails, chat_turn still ends with a terminal item
\* that carries every event published up to the failure; it does not crash.
C12_TerminalItemOnFailure ==
    (r_pc = "raised" /\ c_pc \notin {"check", "waiting"}) =>
        (c_pc = "done" /\ item.kind = "final" /\ item.progress = published)

\* C14: every transfer of control between reasoning units publishes one
\* progress event, the hand-backs to the manager included.
C14_TransfersPublish ==
    [][agent' # agent => Len(published') = Len(published) + 1]_vars

\* C15: chat_turn ends with exactly one terminal item, yielded after the
\* task completed, whose history is the prior history plus (message, reply)
\* and which carries the report; every earlier item carries the prior history
\* and an empty report.
C15_TerminalItem ==
    /\ c_pc \in {"check", "waiting"} =>
          /\ item.kind \in {"none", "progress"}
          /\ item.kind = "progress" =>
                (item.chat = _history_to_messages(history) /\ item.report = "")
    /\ c_pc \in {"done", "crashed"} =>
          /\ TaskDone
          /\ item.kind = "final"
          /\ item.chat = _history_to_messages(Append(history, <<message, reply>>))
          /\ item.report = report_md

\* C18: a run publishes exactly one "View trace" event, before the manager
\* invocation starts, and it is the first event the consumer observes.
C18_TraceFirst ==
    /\ r_pc \in {"none", "created"} => published = <<>>
    /\ r_pc \in {"running", "returned", "raised"} =>
          /\ published # <<>>
          /\ published[1] = TraceEvent
          /\ Len(SelectSeq(published, LAMBDA e : e = TraceEvent)) = 1
    /\ progress_lines # <<>> => progress_lines[1] = TraceEvent
    /\ item.progress # <<>> => item.progress[1] = TraceEvent

\* C18 witness: the final item of a run that published more than the trace event
C18_Witness ==
    /\ c_pc = "done"
    /\ item.kind = "final"
    /\ Len(item.progress) >= 2
    /\ item.progress[1] = TraceEvent

\* C19: each capability publishes its event before it validates its input
\* or invokes its sub-task: plan_searches and write_report also on malformed
\* JSON (then without any invocation), run_search if and only if a
\* progress_label was given; the sub-task's result is still pending then.
C19_EventBeforeWork ==
    [][(turns' = turns + 1
        /\ call'.op \in {"plan_searches", "run_search", "write_report"})
       => /\ call'.op = "plan_searches" =>
                /\ published' = Append(published, Ev("Planning web searches..."))
                /\ call'.invoked = call'.input.wellformed
                /\ call'.result = IF call'.input.wellformed THEN "pending"
                                  ELSE "ToolError"
          /\ call'.op = "write_report" =>
                /\ published' = Append(published, Ev("Writing report..."))
                /\ call'.invoked = call'.wellformed
                /\ call'.result = IF call'.wellformed THEN "pending"
                                  ELSE "ToolError"
          /\ call'.op = "run_search" =>
                /\ published' = IF call'.label # 0
                                THEN Append(published, SearchEv(call'.label))
                                ELSE published
                /\ call'.result = "pending"]_vars

\* C19 witness: plan_searches has published its event on malformed JSON and
\* invoked no planner
C19_Witness ==
    /\ call.op = "plan_searches"
    /\ ~call.input.wellformed
    /\ ~call.invoked
    /\ published[Len(published)] = Ev("Planning web searches...")

\* A step that publishes: the trace event of run_research, or the event of
\* a capability or of a handoff to the Clarifier or the Mailer
PublishingStep ==
    \/ r_pc = "created" /\ r_pc' = "running"
    \/ /\ turns' = turns + 1
       /\ \/ call'.op \in {"plan_searches", "write_report",
                           "transfer_to_ClarifierAgent", "transfer_to_EmailAgent"}
          \/ call'.op = "run_search" /\ call'.label # 0

\* C13: publishing never blocks and never raises: on a queue at capacity,
\* or without a queue or context, the publishing step is taken, the queue is
\* left as it was and the workflow goes on.
C13_PublishNeverBlocks ==
    [][((Full(queue) \/ ~has_ctx) /\ PublishingStep)
       => (queue' = queue /\ published' = published /\ r_pc' = "running")]_vars

\* C13 witness: plan_searches has run on a full queue that also refused the
\* trace event
C13_Witness ==
    /\ maxsize > 0
    /\ Len(queue) = maxsize
    /\ published = <<>>
    /\ call.op = "plan_searches"
    /\ r_pc = "running"

\* C17: the input forwarded to the manager holds at most the 5 most recent
\* turns, in their order, then the current message; with an empty history it
\* is the message alone.
C17_RecentWindow ==
    r_pc \in {"running", "returned", "raised"} =>
        LET n == Len(history)
            c == input_str.context
        IN /\ input_str.current = message
           /\ Len(c) = Min(n, 5)
           /\ \A i \in 1..Len(c) : c[i] = history[n - Len(c) + i]
           /\ input_str.previous = (n > 0)

\* C17 witness: six turns of history, five of them forwarded
C17_Witness ==
    /\ r_pc = "running"
    /\ Len(history) = 6
    /\ Len(input_str.context) = 5

\* C20: for an empty or whitespace-only message chat_turn yields one item
\* with the history and the incoming progress text unchanged and an empty
\* report, and starts no run: no queue, no event, no new turn.
C20_BlankMessage ==
    (c_pc # "idle" /\ message \in {"", " "}) =>
        /\ c_pc = "blank"
        /\ item = [kind |-> "blank", chat |-> chat_in,
                   progress |-> progress_holder, report |-> ""]
        /\ r_pc = "none"
        /\ queue = <<>>
        /\ published = <<>>

\* C20 witness: the single item of a blank turn in a conversation under way
C20_Witness ==
    /\ c_pc = "blank"
    /\ item.kind = "blank"
    /\ Len(chat_in) >= 2
    /\ progress_holder # <<>>

\* C16: two runs in flight have each their own queue and their own
\* correlation id; a turn observes only the events of its own run, and the
\* queue and id of one context are not those of the other.
C16_RunsIsolated ==
    /\ \A r \in Runs : \A i \in 1..Len(t_lines[r]) : t_lines[r][i].by = r
    /\ \A r \in Runs : t_run[r] \in {"running", "returned"} =>
           /\ t_ctx[r].progress_queue = t_queue[r]
           /\ \A i \in 1..Len(heap[t_queue[r]]) :
                  /\ heap[t_queue[r]][i].by = r
                  /\ heap[t_queue[r]][i].trace_id = t_ctx[r].trace_id
    /\ (t_run[1] \in {"running", "returned"} /\ t_run[2] \in {"running", "returned"}) =>
           /\ t_ctx[1].progress_queue # t_ctx[2].progress_queue
           /\ t_ctx[1].trace_id # t_ctx[2].trace_id

\* C16 witness: both runs are running, each turn has observed its trace
\* event and has a progress event of its run waiting on its queue
C16_Witness ==
    \A r \in Runs :
        /\ t_run[r] = "running"
        /\ Len(t_lines[r]) = 1
        /\ t_lines[r][1].kind = "View trace"
        /\ Len(heap[t_queue[r]]) = 1
        /\ heap[t_queue[r]][1].kind = "progress"

====
